---- MODULE Spec2Model ----
(***************************************************************************)
(* Chat session store of the launcher extension: the staterino store of    *)
(* src/lib/chat-state.ts, the request driver queryLLM of src/lib/llm       *)
(* (unnamed/part_003), the streaming loop of the providers                 *)
(* (src/lib/llm/providers/openai.ts), the throttle of src/lib/util.ts and  *)
(* the persistence of src/lib/storage.ts.                                  *)
(*                                                                         *)
(* Representation.  Strings that the code inspects (query, message text)   *)
(* are sequences of one-character strings.  ChatMessage objects are shared *)
(* by reference between the store, the running requests and the throttle's *)
(* lastArgs, and the providers mutate them in place, so they live in a     *)
(* heap (messages) indexed by their id and histories are sequences of ids. *)
(* null / undefined is 0 for ids and the empty sequence for objects.       *)
(***************************************************************************)
EXTENDS Integers, Sequences, FiniteSets, TLC

----------------------------------------------------------------------------
(* Bounds of the model                                                     *)

MaxUuid == 8        \* crypto.randomUUID() is called at most this many times
MaxReq == 2         \* queryLLM is started at most this many times
MaxChunks == 2      \* stream chunks delivered to one request
MaxNow == 1         \* Date.now() ranges over 0..MaxNow
AgeCap == 2         \* ages of saved states are counted up to this many saveState calls

----------------------------------------------------------------------------
(* Program constants                                                       *)

NEW_CHAT_ID == -1                       \* the dropdown value 'new'
DEFAULT_MODEL_ID == "gpt-4.1"
AVAILABLE_MODELS == {"gpt-4.1", "gpt-4o"}
TitleLen == 50                          \* query.substring(0, 50)
PlaceholderText == <<".", ".", ".">>    \* parts: [{ text: '...' }]
NewChatTitle == <<"N">>                 \* 'New Chat'

----------------------------------------------------------------------------
(* Strings                                                                 *)

IsSpace(c) == c = " "

RECURSIVE TrimStart(_)
TrimStart(s) ==
  IF s = <<>> THEN <<>>
  ELSE IF IsSpace(Head(s)) THEN TrimStart(Tail(s)) ELSE s

RECURSIVE TrimEnd(_)
TrimEnd(s) ==
  IF s = <<>> THEN <<>>
  ELSE IF IsSpace(s[Len(s)]) THEN TrimEnd(SubSeq(s, 1, Len(s) - 1)) ELSE s

\* String.prototype.trim
Trim(s) == TrimEnd(TrimStart(s))

\* a substring that forgets its end
SubstringToEnd(s, from, to) == SubSeq(s, from + 1, Len(s))

\* String.prototype.substring(from, to) with 0 <= from <= to
Substring(s, from, to) ==
  SubSeq(s, from + 1, IF to < Len(s) THEN to ELSE Len(s))

RECURSIVE Join(_)
Join(texts) == IF texts = <<>> THEN <<>> ELSE Head(texts) \o Join(Tail(texts))

\* getTextFromParts: parts.map((p) => p.text ?? '').join('')
getTextFromParts(parts) == Join([i \in 1..Len(parts) |-> parts[i].text])

----------------------------------------------------------------------------
(* Inputs                                                                  *)

QueryInputs == {<<>>, <<" ">>, <<" ", "h">>}
ChunkContents == {<<>>, <<"x">>}        \* chunk.choices[0]?.delta?.content
GeneratedTitles == {<<>>, <<"T">>}      \* generateText result, <<>> is null

\* a text one character longer than a title
LongQuery == [i \in 1..(TitleLen + 1) |-> IF i <= TitleLen THEN "a" ELSE "b"]

SeqRange(s) == {s[i] : i \in 1..Len(s)}

\* Array.prototype.findIndex, 0 when nothing is found (-1 in the code)
RECURSIVE FindFrom(_, _, _)
FindFrom(s, x, i) ==
  IF i > Len(s) THEN 0 ELSE IF s[i] = x THEN i ELSE FindFrom(s, x, i + 1)

IdIndex(objs, id) == FindFrom([i \in 1..Len(objs) |-> objs[i].id], id, 1)

----------------------------------------------------------------------------
(* State                                                                   *)

VARIABLES
  initializing,        \* State.initializing
  loading,             \* State.loading
  query,               \* State.query
  selectedMessageId,   \* State.selectedMessageId, 0 is null
  activeSessionId,     \* State.activeSessionId, 0 is null
  persistentState,     \* State.persistentState
  messages,            \* the ChatMessage objects, by id
  abortControllerRef,  \* abortControllerRef.current: the request owning it, 0 is null
  aborted,             \* the controllers whose signal.aborted is true
  requests,            \* the running sendQuery / queryLLM / provider.query calls, with
                       \* what each did: its chunks, its history updates, the parts
                       \* of its last message as its latest store update showed them
                       \* (shown), and whether stopRequest was invoked on it (stopped)
  titleTasks,          \* generateTitleForSession calls awaiting generateChatTitle: the
                       \* session each will title and the session of the request that
                       \* made the call
  throttle,            \* closure variables of throttle(persistState, 500)
  stored,              \* LocalStorage item STATE_KEY: <<>> or <<blob>>
  nextUuid,            \* number of the next crypto.randomUUID() value
  now,                 \* Date.now()
  storageOk,           \* whether the host's LocalStorage calls succeed
  maxInFlight,         \* how many requests the user lets run at a time
  writeLog,            \* the arguments of the last persistState call, and their age
  ev                   \* the last operation: its name, result, saveState and write calls

vars == <<initializing, loading, query, selectedMessageId, activeSessionId,
          persistentState, messages, abortControllerRef, aborted, requests,
          titleTasks, throttle, stored, nextUuid, now, storageOk, maxInFlight,
          writeLog, ev>>

ReqIds == 1..MaxReq

NoMessage == [role |-> "none", date |-> 0, parts |-> <<>>]

IdleRequest ==
  [pc |-> "idle", sessionId |-> 0, curHistory |-> <<>>, isNewSession |-> FALSE,
   chunks |-> 0, updates |-> 0, shown |-> <<>>, stopped |-> FALSE]

\* initialState of chat-state.ts
initialPersistentState ==
  [sessions |-> <<>>, minusOne |-> <<>>,
   selectedModelId |-> DEFAULT_MODEL_ID, enableSearchTool |-> FALSE]

----------------------------------------------------------------------------
(* Persistence: src/lib/storage.ts                                         *)

\* What JSON.stringify sees of a message: the object the id refers to
MessageJson(id, heap) ==
  [id |-> id, date |-> heap[id].date, role |-> heap[id].role, parts |-> heap[id].parts]

SessionJson(s, heap) ==
  [id |-> s.id, title |-> s.title,
   history |-> [i \in 1..Len(s.history) |-> MessageJson(s.history[i], heap)],
   createdAt |-> s.createdAt, updatedAt |-> s.updatedAt, modelId |-> s.modelId]

\* JSON.stringify(state): the array elements of sessions (a non-index
\* property of the array is not serialized), and the two settings
Stringify(ps, heap) ==
  [sessions |-> [i \in 1..Len(ps.sessions) |-> SessionJson(ps.sessions[i], heap)],
   selectedModelId |-> ps.selectedModelId,
   enableSearchTool |-> ps.enableSearchTool]

Has(obj, key) == key \in DOMAIN obj

defaultState ==
  [sessions |-> <<>>, selectedModelId |-> DEFAULT_MODEL_ID, enableSearchTool |-> FALSE]

\* session.modelId || loadedState.selectedModelId || DEFAULT_MODEL_ID
LoadedModelId(session, loadedState) ==
  IF Has(session, "modelId") /\ session.modelId # "" THEN session.modelId
  ELSE IF Has(loadedState, "selectedModelId") /\ loadedState.selectedModelId # ""
       THEN loadedState.selectedModelId
  ELSE DEFAULT_MODEL_ID

\* { ...session, modelId: ... }
LoadedSession(session, loadedState) ==
  [k \in DOMAIN session \cup {"modelId"} |->
     IF k = "modelId" THEN LoadedModelId(session, loadedState) ELSE session[k]]

\* a loadState that forgets the search setting
LoadedEnableSearchToolOff(loadedState) == FALSE

\* loadedState.enableSearchTool ?? false
LoadedEnableSearchTool(loadedState) ==
  IF Has(loadedState, "enableSearchTool") THEN loadedState.enableSearchTool ELSE FALSE

\* loadState: item is the LocalStorage item, readOk is false when getItem or
\* JSON.parse throws
loadState(item, readOk) ==
  IF ~readOk \/ item = <<>> THEN defaultState
  ELSE LET loadedState == item[1]
           loadedSessions == IF Has(loadedState, "sessions") THEN loadedState.sessions ELSE <<>>
       IN [sessions |-> [i \in 1..Len(loadedSessions) |->
                           LoadedSession(loadedSessions[i], loadedState)],
           selectedModelId |-> IF Has(loadedState, "selectedModelId")
                               THEN loadedState.selectedModelId ELSE DEFAULT_MODEL_ID,
           enableSearchTool |-> LoadedEnableSearchTool(loadedState)]

\* The objects JSON.parse creates for a loaded state: sessions that refer to
\* their messages, and the messages themselves
LoadedPersistentState(loaded) ==
  [sessions |-> [i \in 1..Len(loaded.sessions) |->
                   [loaded.sessions[i] EXCEPT
                      !.history = [j \in 1..Len(@) |-> @[j].id]]],
   minusOne |-> <<>>,
   selectedModelId |-> loaded.selectedModelId,
   enableSearchTool |-> loaded.enableSearchTool]

LoadedMessages(loaded) ==
  [id \in 1..MaxUuid |->
     LET found == {m \in UNION {SeqRange(loaded.sessions[i].history) :
                                  i \in 1..Len(loaded.sessions)} : m.id = id}
     IN IF found = {} THEN NoMessage
        ELSE LET m == CHOOSE m \in found : TRUE
             IN [role |-> m.role, date |-> m.date, parts |-> m.parts]]

\* Items a previous run can have left under STATE_KEY
StoredSession ==
  [id |-> 1, title |-> <<"c">>,
   history |-> << [id |-> 2, date |-> 0, role |-> "user", parts |-> << [text |-> <<"h">>] >>],
                  [id |-> 3, date |-> 0, role |-> "model", parts |-> << [text |-> <<"x">>] >>] >>,
   createdAt |-> 0, updatedAt |-> 0, modelId |-> "gpt-4o"]

\* a session written before sessions carried a modelId
LegacySession ==
  [id |-> 1, title |-> <<"c">>, history |-> <<>>, createdAt |-> 0, updatedAt |-> 0]

FullStoredState ==
  [sessions |-> <<StoredSession>>, selectedModelId |-> "gpt-4.1", enableSearchTool |-> TRUE]

\* written before the search setting existed
LegacyStoredState ==
  [sessions |-> <<LegacySession>>, selectedModelId |-> "gpt-4o"]

StoredItems == { <<>>, << FullStoredState >>, << LegacyStoredState >> }

\* the uuids of the stored objects are those of previous runs
FirstUuid == Len(StoredSession.history) + 2

----------------------------------------------------------------------------
(* The world a handler runs in: the variables it can read and write        *)

\* clientOk: the provider gets its client
World(clientOk) ==
  [initializing |-> initializing, loading |-> loading, query |-> query,
   selectedMessageId |-> selectedMessageId, activeSessionId |-> activeSessionId,
   persistentState |-> persistentState, messages |-> messages,
   abortControllerRef |-> abortControllerRef, aborted |-> aborted,
   requests |-> requests, titleTasks |-> titleTasks, throttle |-> throttle,
   stored |-> stored, nextUuid |-> nextUuid, writeLog |-> writeLog,
   saves |-> 0, writes |-> 0, clientOk |-> clientOk]

HistoriesOf(ps) ==
  {ps.sessions[i].history : i \in 1..Len(ps.sessions)}
    \cup {ps.minusOne[i].history : i \in {j \in 1..Len(ps.minusOne) : Has(ps.minusOne[j], "history")}}

\* The messages something still refers to: the store, the running requests
\* and the state the throttle holds for its trailing call
Referenced(w) ==
  UNION {SeqRange(h) : h \in HistoriesOf(w.persistentState)
                            \cup {w.requests[r].curHistory : r \in ReqIds}
                            \cup UNION {HistoriesOf(w.throttle.lastArgs[i]) :
                                          i \in 1..Len(w.throttle.lastArgs)}}

\* The state after a handler that ended in world w; messages and
\* controllers nothing refers to any more are dropped
Commit(w, op, ret) ==
  /\ initializing' = w.initializing
  /\ loading' = w.loading
  /\ query' = w.query
  /\ selectedMessageId' = w.selectedMessageId
  /\ activeSessionId' = w.activeSessionId
  /\ persistentState' = w.persistentState
  /\ messages' = [id \in 1..MaxUuid |->
                    IF id \in Referenced(w) THEN w.messages[id] ELSE NoMessage]
  /\ abortControllerRef' = w.abortControllerRef
  /\ aborted' = w.aborted \cap {w.abortControllerRef}
  /\ requests' = w.requests
  /\ titleTasks' = w.titleTasks
  /\ throttle' = w.throttle
  /\ stored' = w.stored
  /\ nextUuid' = w.nextUuid
  /\ writeLog' = w.writeLog
  /\ ev' = [op |-> op, ret |-> ret, saves |-> w.saves, writes |-> w.writes]
  /\ UNCHANGED <<now, storageOk, maxInFlight>>

Min(a, b) == IF a < b THEN a ELSE b

----------------------------------------------------------------------------
(* Throttled persistence: src/lib/util.ts throttle, src/lib/storage.ts     *)

\* persistState: LocalStorage.setItem(STATE_KEY, JSON.stringify(state)); a
\* rejected setItem is caught and leaves the item as it was
persistState(w, state, age) ==
  [w EXCEPT !.stored = IF storageOk THEN <<Stringify(state, w.messages)>> ELSE @,
            !.writeLog.args = <<state>>,
            !.writeLog.age = age,
            !.writes = @ + 1]

\* a throttle that never arms its timer
throttledFnWithoutWindow(w, args, age) ==
  persistState([w EXCEPT !.throttle.lastArgs = <<args>>, !.writeLog.lastArgsAge = age],
               args, age)

\* a throttle that keeps the arguments of a call only when it writes them
throttledFnDropsLaterArgs(w, args, age) ==
  IF ~w.throttle.timeoutId
  THEN [persistState([w EXCEPT !.throttle.lastArgs = <<args>>,
                               !.writeLog.lastArgsAge = age], args, age)
          EXCEPT !.throttle.timeoutId = TRUE]
  ELSE [w EXCEPT !.throttle.trailingCallScheduled = TRUE]

\* throttledFn(...args); age is the number of saveState calls made since
\* the one that passed args
throttledFn(w, args, age) ==
  LET w1 == [w EXCEPT !.throttle.lastArgs = <<args>>, !.writeLog.lastArgsAge = age]
  IN IF ~w1.throttle.timeoutId
     THEN [persistState(w1, args, age) EXCEPT !.throttle.timeoutId = TRUE]
     ELSE [w1 EXCEPT !.throttle.trailingCallScheduled = TRUE]

\* saveState(state)
saveState(w, state) ==
  throttledFn([w EXCEPT !.saves = @ + 1,
                        !.writeLog.age = Min(AgeCap, @ + 1),
                        !.writeLog.lastArgsAge = Min(AgeCap, @ + 1)],
              state, 0)

\* the setTimeout callback of throttledFn
timeoutCallback(w) ==
  LET w1 == [w EXCEPT !.throttle.timeoutId = FALSE]
  IN IF w1.throttle.trailingCallScheduled
     THEN throttledFn([w1 EXCEPT !.throttle.trailingCallScheduled = FALSE],
                      w1.throttle.lastArgs[1], w1.writeLog.lastArgsAge)
     ELSE w1

----------------------------------------------------------------------------
(* The store: staterino + mergerino, src/lib/chat-state.ts                 *)

\* a subscription without its selectors: it runs on every change of the store
SetSubscribedToAll(w, patch) ==
  LET w1 == [k \in DOMAIN w |-> IF k \in DOMAIN patch THEN patch[k] ELSE w[k]]
  IN IF ~w1.initializing THEN saveState(w1, w1.persistentState) ELSE w1

\* useStore.set(patch) for a patch that replaces the top-level fields of
\* patch, followed by the subscription of chat-state.ts: it runs when
\* persistentState (any patch that touches it yields a new object) or
\* initializing changed, and saves unless the store is initializing
Set(w, patch) ==
  LET w1 == [k \in DOMAIN w |-> IF k \in DOMAIN patch THEN patch[k] ELSE w[k]]
      changed == \/ "persistentState" \in DOMAIN patch
                 \/ w1.initializing # w.initializing
  IN IF changed /\ ~w1.initializing THEN saveState(w1, w1.persistentState) ELSE w1

\* a sendQuery that does not wait for the stored sessions
isInitializingIgnored(w) == FALSE

isInitializing(w) == w.initializing

\* getActiveSession: <<>> when there is none, else <<session>>
getActiveSession(w) ==
  IF w.activeSessionId = 0 THEN <<>>
  ELSE LET i == IdIndex(w.persistentState.sessions, w.activeSessionId)
       IN IF i = 0 THEN <<>> ELSE <<w.persistentState.sessions[i]>>

\* getSelectedModelId: getActiveSession(s)?.modelId ?? selectedModelId
\* a getSelectedModelId that reads the global choice only
getGlobalModelId(w) == w.persistentState.selectedModelId

getSelectedModelId(w) ==
  IF getActiveSession(w) = <<>> THEN w.persistentState.selectedModelId
  ELSE getActiveSession(w)[1].modelId

\* mergerino on { sessions: { [sessionIndex]: { ...updates, updatedAt } } }:
\* the session at the index is merged with the updates; for the index -1
\* the copy of the array gets the updates as its property '-1'
getUpdateSessionPatch(w, sessionId, updates) ==
  LET sessions == w.persistentState.sessions
      sessionIndex == IdIndex(sessions, sessionId)
      merged == [k \in DOMAIN updates \cup {"updatedAt"} |->
                   IF k = "updatedAt" THEN now ELSE updates[k]]
  IN [persistentState |->
        IF sessionIndex = 0
        THEN [w.persistentState EXCEPT !.minusOne = <<merged>>]
        ELSE [w.persistentState EXCEPT
                !.minusOne = <<>>,
                !.sessions[sessionIndex] =
                   [k \in DOMAIN @ |-> IF k \in DOMAIN merged THEN merged[k] ELSE @[k]]]]

setSession(w, sessionId, updates) == Set(w, getUpdateSessionPatch(w, sessionId, updates))

\* patches that replace the sessions array drop its property '-1'
WithSessions(ps, sessions) == [ps EXCEPT !.sessions = sessions, !.minusOne = <<>>]

----------------------------------------------------------------------------
(* Requests: queryLLM (unnamed/part_003), queryOpenAI (providers/openai.ts) *)

\* Array.prototype.at: index counted from 0, a negative one from the end;
\* 0 when there is no such element
At(s, j) ==
  LET k == IF j < 0 THEN Len(s) + j ELSE j
  IN IF k >= 0 /\ k < Len(s) THEN s[k + 1] ELSE 0

\* a slice that keeps the element at end as well
SliceThrough(s, end) ==
  LET e == IF end < 0 THEN Len(s) + end + 1 ELSE Min(end + 1, Len(s))
  IN IF e <= 0 THEN <<>> ELSE SubSeq(s, 1, e)

\* Array.prototype.slice(0, end)
Slice(s, end) ==
  LET e == IF end < 0 THEN Len(s) + end ELSE Min(end, Len(s))
  IN IF e <= 0 THEN <<>> ELSE SubSeq(s, 1, e)

\* stopRequest: abortControllerRef.current?.abort()
stopRequest(w) ==
  IF w.abortControllerRef = 0 THEN w
  ELSE [w EXCEPT !.aborted = @ \cup {w.abortControllerRef}]

\* abortControllerRef.current?.signal.aborted
signalAborted(w) == w.abortControllerRef # 0 /\ w.abortControllerRef \in w.aborted

\* a provider that streams into the placeholder as it is
prepareLastMessageKeepsPlaceholder(w, lastMessage) == w

\* prepareLastMessageForStreaming: drops the part of the placeholder text
prepareLastMessageForStreaming(w, lastMessage) ==
  IF /\ w.messages[lastMessage].parts # <<>>
     /\ w.messages[lastMessage].parts[1].text = PlaceholderText
  THEN [w EXCEPT !.messages[lastMessage].parts = Tail(@)]
  ELSE w

\* the part of provider.query that runs before its first await
queryOpenAIStart(w, r, curHistory) ==
  IF ~w.clientOk
  THEN [w EXCEPT !.requests[r].pc = "toast"]
  ELSE [prepareLastMessageForStreaming(w, At(curHistory, -1)) EXCEPT
          !.requests[r].pc = "streaming"]

\* the ids crypto.randomUUID() returns for the two messages of a request
UserMessageId(n) == n

\* one uuid used for both messages
PlaceholderIdReused(n) == n

PlaceholderId(n) == n + 1

\* queryLLM up to the first await of provider.query, with the callbacks
\* sendQuery passes: onStart and onHistoryChange
queryLLM(w, r, input, history, sessionId, isNewSession) ==
  LET userMessage == UserMessageId(w.nextUuid)
      modelPlaceholder == PlaceholderId(w.nextUuid)
      curHistory == history \o <<userMessage, modelPlaceholder>>
      w1 == [w EXCEPT
               !.nextUuid = @ + 2,
               !.messages[userMessage] =
                  [role |-> "user", date |-> now, parts |-> << [text |-> input] >>],
               !.messages[modelPlaceholder] =
                  [role |-> "model", date |-> now, parts |-> << [text |-> PlaceholderText] >>],
               !.requests[r] =
                  [pc |-> "started", sessionId |-> sessionId, curHistory |-> curHistory,
                   isNewSession |-> isNewSession, chunks |-> 0, updates |-> 0,
                   shown |-> << [text |-> PlaceholderText] >>, stopped |-> FALSE]]
      \* onStart(curHistory)
      w2 == Set(w1, [persistentState |->
                       getUpdateSessionPatch(w1, sessionId,
                                             [history |-> curHistory]).persistentState,
                     loading |-> TRUE,
                     query |-> <<>>,
                     selectedMessageId |-> At(curHistory, -1)])
      \* onHistoryChange(curHistory)
      w3 == setSession(w2, sessionId, [history |-> curHistory])
      w4 == [stopRequest(w3) EXCEPT !.abortControllerRef = r]
  IN queryOpenAIStart(w4, r, curHistory)

\* the request a new queryLLM call becomes: 0 when the bound is reached
FreeRequest(w) ==
  IF \E r \in ReqIds : w.requests[r].pc = "idle"
  THEN CHOOSE r \in ReqIds :
         /\ w.requests[r].pc = "idle"
         /\ \A q \in ReqIds : w.requests[q].pc = "idle" => r <= q
  ELSE 0

InFlight(req) == req.pc \in {"streaming", "toast"}

\* generateTitleForSession up to its await of generateChatTitle, which
\* returns null at once when one of the two texts is blank; startedFor is
\* the session of the request whose sendQuery makes the call
generateTitleForSession(w, r, startedFor, session) ==
  IF Len(session.history) < 2 THEN w
  ELSE LET userMessage == w.messages[session.history[1]]
           modelMessage == w.messages[session.history[2]]
       IN IF \/ Trim(getTextFromParts(userMessage.parts)) = <<>>
             \/ Trim(getTextFromParts(modelMessage.parts)) = <<>>
          THEN w
          ELSE [w EXCEPT !.titleTasks =
                  @ \cup {[req |-> r, sessionId |-> session.id, startedFor |-> startedFor]}]

DoneRequest ==
  [pc |-> "done", sessionId |-> 0, curHistory |-> <<>>, isNewSession |-> FALSE,
   chunks |-> 0, updates |-> 0, shown |-> <<>>, stopped |-> FALSE]

\* The end of a request: the finally block of queryLLM, then the rest of
\* sendQuery after its await of queryLLM
finishRequest(w, r) ==
  LET isNewSession == w.requests[r].isNewSession
      w1 == [w EXCEPT !.abortControllerRef = 0, !.requests[r] = DoneRequest]
      w2 == Set(w1, [loading |-> FALSE])
  IN IF isNewSession /\ getActiveSession(w2) # <<>>
     THEN generateTitleForSession(w2, r, w.requests[r].sessionId, getActiveSession(w2)[1])
     ELSE w2

\* One iteration of the for-await loop of queryOpenAI on a chunk
streamChunk(w, r, content) ==
  LET req == w.requests[r]
      lastMessage == At(req.curHistory, -1)
  IN IF signalAborted(w) THEN finishRequest(w, r)
     ELSE IF content = <<>> THEN [w EXCEPT !.requests[r].chunks = @ + 1]
     ELSE setSession([w EXCEPT !.messages[lastMessage].parts =
                                   Append(@, [text |-> content]),
                               !.requests[r].chunks = @ + 1,
                               !.requests[r].updates = @ + 1,
                               !.requests[r].shown =
                                   Append(w.messages[lastMessage].parts, [text |-> content])],
                     req.sessionId, [history |-> req.curHistory])

\* The end of the stream: showResponseCompleteToast unless aborted
streamEnd(w, r) ==
  IF signalAborted(w) THEN finishRequest(w, r)
  ELSE [w EXCEPT !.requests[r].pc = "toast"]

----------------------------------------------------------------------------
(* Operations of chat-state.ts                                             *)

\* sendQuery up to its await of queryLLM; ret is "false" when it returned
\* false and "pending" when the request was started
sendQuery(w, q, searchEnabled) ==
  IF Trim(q) = <<>> \/ isInitializing(w) THEN [w |-> w, ret |-> "false"]
  ELSE
    LET activeSession == getActiveSession(w)
        isNewSession == activeSession = <<>>
        modelToUse == getSelectedModelId(w)
        newSession ==
          [id |-> w.nextUuid,
           title |-> IF Substring(q, 0, TitleLen) # <<>>
                     THEN Substring(q, 0, TitleLen) ELSE NewChatTitle,
           history |-> <<>>, createdAt |-> now, updatedAt |-> now,
           modelId |-> modelToUse]
        w1 == IF isNewSession
              THEN Set([w EXCEPT !.nextUuid = @ + 1],
                       [activeSessionId |-> newSession.id,
                        persistentState |->
                          WithSessions(w.persistentState,
                                       <<newSession>> \o w.persistentState.sessions)])
              ELSE w
        session == IF isNewSession THEN newSession ELSE activeSession[1]
    IN [w |-> queryLLM(w1, FreeRequest(w1), q, session.history, session.id, isNewSession),
        ret |-> "pending"]

\* what a sendQuery call needs from the bounds of the model
CanSend(w, q) ==
  \/ Trim(q) = <<>>
  \/ isInitializing(w)
  \/ /\ FreeRequest(w) # 0
     /\ Cardinality({r \in ReqIds : InFlight(w.requests[r])}) < maxInFlight
     /\ w.nextUuid + (IF getActiveSession(w) = <<>> THEN 2 ELSE 1) <= MaxUuid

sendChat(w) == sendQuery(w, w.query, w.persistentState.enableSearchTool)

regenerateFromMessage(w, messageId) ==
  LET activeSession == getActiveSession(w) IN
  IF activeSession = <<>> THEN [w |-> w, ret |-> "false"]
  ELSE
    LET history == activeSession[1].history
        messageIndex == FindFrom(history, messageId, 1) - 1
    IN IF messageIndex = -1 THEN [w |-> w, ret |-> "false"]
       ELSE
         LET targetMessage == At(history, messageIndex)
             truncateOffset == IF w.messages[targetMessage].role = "model" THEN -1 ELSE 0
             userMessage == At(history, messageIndex + truncateOffset)
         IN IF userMessage = 0 \/ w.messages[userMessage].role # "user"
            THEN [w |-> w, ret |-> "false"]
            ELSE
              LET userQuery == getTextFromParts(w.messages[userMessage].parts)
              IN IF userQuery = <<>> THEN [w |-> w, ret |-> "false"]
                 ELSE
                   LET truncatedHistory == Slice(history, messageIndex + truncateOffset)
                       w1 == setSession(stopRequest(w), activeSession[1].id,
                                        [history |-> truncatedHistory])
                   IN sendQuery(w1, userQuery, w1.persistentState.enableSearchTool)

regenerateFromEditedMessage(w, messageId, editedContent) ==
  LET activeSession == getActiveSession(w) IN
  IF activeSession = <<>> THEN [w |-> w, ret |-> "false"]
  ELSE
    LET history == activeSession[1].history
        messageIndex == FindFrom(history, messageId, 1) - 1
    IN IF messageIndex = -1 THEN [w |-> w, ret |-> "false"]
       ELSE IF w.messages[At(history, messageIndex)].role # "user"
       THEN [w |-> w, ret |-> "false"]
       ELSE
         LET truncatedHistory == Slice(history, messageIndex)
             w1 == setSession(stopRequest(w), activeSession[1].id,
                              [history |-> truncatedHistory])
         IN sendQuery(w1, editedContent, w1.persistentState.enableSearchTool)

startNewChat(w) ==
  Set(stopRequest(w), [activeSessionId |-> 0, query |-> <<>>, selectedMessageId |-> 0])

\* a filter that drops the first session whatever its id
FilterOutFirst(sessions, id) == Tail(sessions)

RECURSIVE FilterOutId(_, _)
FilterOutId(sessions, id) ==
  IF sessions = <<>> THEN <<>>
  ELSE IF Head(sessions).id = id THEN FilterOutId(Tail(sessions), id)
  ELSE <<Head(sessions)>> \o FilterOutId(Tail(sessions), id)

deleteSession(w, sessionIdToDelete) ==
  LET w1 == stopRequest(w)
      isCurrentSession == /\ getActiveSession(w1) # <<>>
                          /\ getActiveSession(w1)[1].id = sessionIdToDelete
      w2 == Set(w1, [persistentState |->
                       WithSessions(w1.persistentState,
                                    FilterOutId(w1.persistentState.sessions,
                                                sessionIdToDelete))])
  IN IF isCurrentSession THEN startNewChat(w2) ELSE w2

\* a switch without the unChanged test
switchSessionAlways(w, newSessionId) ==
  LET w1 == stopRequest(w) IN
  IF newSessionId = 0 \/ newSessionId = NEW_CHAT_ID THEN startNewChat(w1)
  ELSE LET i == IdIndex(w1.persistentState.sessions, newSessionId)
       IN Set(w1, [activeSessionId |-> newSessionId,
                   selectedMessageId |->
                     IF i = 0 THEN 0 ELSE At(w1.persistentState.sessions[i].history, -1),
                   query |-> <<>>])

switchSession(w, newSessionId) ==
  LET activeSession == getActiveSession(w)
      unChanged == IF activeSession # <<>> THEN activeSession[1].id = newSessionId
                   ELSE newSessionId = NEW_CHAT_ID
  IN IF unChanged THEN w
     ELSE LET w1 == stopRequest(w) IN
          IF newSessionId = 0 \/ newSessionId = NEW_CHAT_ID THEN startNewChat(w1)
          ELSE LET i == IdIndex(w1.persistentState.sessions, newSessionId)
                   lastMessageId == IF i = 0 THEN 0
                                    ELSE At(w1.persistentState.sessions[i].history, -1)
               IN Set(w1, [activeSessionId |-> newSessionId,
                           selectedMessageId |-> lastMessageId,
                           query |-> <<>>])

setSelectedModelId(w, modelId) ==
  IF modelId = getSelectedModelId(w) \/ isInitializing(w) THEN w
  ELSE IF getActiveSession(w) # <<>>
       THEN setSession(w, getActiveSession(w)[1].id, [modelId |-> modelId])
       ELSE Set(w, [persistentState |->
                      [w.persistentState EXCEPT !.selectedModelId = modelId]])

setEnableSearchTool(w, value) ==
  Set(w, [persistentState |-> [w.persistentState EXCEPT !.enableSearchTool = value]])

setQuery(w, q) == Set(w, [query |-> q])

\* load() after its await of loadState
load(w, item, readOk) ==
  LET loaded == loadState(item, readOk)
  IN Set([w EXCEPT !.messages = LoadedMessages(loaded)],
         [persistentState |-> LoadedPersistentState(loaded),
          initializing |-> FALSE,
          activeSessionId |-> 0,
          selectedMessageId |-> 0,
          loading |-> FALSE])

----------------------------------------------------------------------------
(* Initial state: the module is imported, load() awaits loadState          *)

Init ==
  /\ initializing = TRUE
  /\ loading = TRUE
  /\ query = <<>>
  /\ selectedMessageId = 0
  /\ activeSessionId = 0
  /\ persistentState = initialPersistentState
  /\ messages = [id \in 1..MaxUuid |-> NoMessage]
  /\ abortControllerRef = 0
  /\ aborted = {}
  /\ requests = [r \in ReqIds |-> IdleRequest]
  /\ titleTasks = {}
  /\ throttle = [timeoutId |-> FALSE, lastArgs |-> <<>>, trailingCallScheduled |-> FALSE]
  /\ stored \in StoredItems
  /\ nextUuid = FirstUuid
  /\ now = 0
  /\ storageOk \in BOOLEAN
  /\ maxInFlight \in 1..MaxReq
  /\ writeLog = [args |-> <<>>, age |-> 0, lastArgsAge |-> 0]
  /\ ev = [op |-> "init", ret |-> "void", saves |-> 0, writes |-> 0]

----------------------------------------------------------------------------
(* Actions: one per handler or asynchronous step                           *)

\* load() resumes with the result of loadState
LoadDone ==
  /\ initializing
  /\ Commit(load(World(TRUE), stored, storageOk), "load", "void")

\* onSearchTextChange / the text area's onChange
SetQuery ==
  \E q \in QueryInputs : Commit(setQuery(World(TRUE), q), "setQuery", "void")

\* a long text is pasted into the search bar or the text area
PasteQuery == Commit(setQuery(World(TRUE), LongQuery), "setQuery", "void")

\* the Send Message action and the form's onSubmit
SendChat ==
  \E clientOk \in BOOLEAN :
    LET w == World(clientOk) IN
    /\ CanSend(w, w.query)
    /\ Commit(sendChat(w).w, "sendChat", sendChat(w).ret)

CanRegenerate(w) ==
  /\ FreeRequest(w) # 0
  /\ Cardinality({r \in ReqIds : InFlight(w.requests[r])}) < maxInFlight
  /\ w.nextUuid + 1 <= MaxUuid

\* the Regenerate action of a message
RegenerateFromMessage ==
  \E clientOk \in BOOLEAN, messageId \in 1..(nextUuid - 1) :
    LET w == World(clientOk) IN
    /\ CanRegenerate(w)
    /\ Commit(regenerateFromMessage(w, messageId).w, "regenerateFromMessage",
              regenerateFromMessage(w, messageId).ret)

\* the Edit and Regenerate form's onSubmit
RegenerateFromEditedMessage ==
  \E clientOk \in BOOLEAN, messageId \in 1..(nextUuid - 1),
     editedContent \in QueryInputs :
    LET w == World(clientOk) IN
    /\ CanRegenerate(w)
    /\ Commit(regenerateFromEditedMessage(w, messageId, editedContent).w,
              "regenerateFromEditedMessage",
              regenerateFromEditedMessage(w, messageId, editedContent).ret)

\* the New Chat action
StartNewChat == Commit(startNewChat(World(TRUE)), "startNewChat", "void")

SessionIds == {persistentState.sessions[i].id : i \in 1..Len(persistentState.sessions)}

\* the Delete Chat action
DeleteSession ==
  \E id \in SessionIds :
    Commit(deleteSession(World(TRUE), id), "deleteSession", "void")

\* the session dropdown's onChange
SwitchSession ==
  \E newSessionId \in SessionIds \cup {NEW_CHAT_ID, 0} :
    Commit(switchSession(World(TRUE), newSessionId), "switchSession", "void")

\* the model menu's onChange
SetSelectedModelId ==
  \E modelId \in AVAILABLE_MODELS :
    Commit(setSelectedModelId(World(TRUE), modelId), "setSelectedModelId", "void")

\* the search checkbox's onChange
SetEnableSearchTool ==
  \E value \in BOOLEAN :
    Commit(setEnableSearchTool(World(TRUE), value), "setEnableSearchTool", "void")

\* the Cancel Request action, offered while isLoading: stopRequest
CancelRequest ==
  /\ loading
  /\ LET w == World(TRUE) IN
     Commit([stopRequest(w) EXCEPT
               !.requests = [r \in ReqIds |->
                               IF InFlight(w.requests[r])
                               THEN [w.requests[r] EXCEPT !.stopped = TRUE]
                               ELSE w.requests[r]]],
            "stopRequest", "void")

\* the stream of a request yields a chunk
Chunk ==
  \E r \in ReqIds, content \in ChunkContents :
    /\ requests[r].pc = "streaming"
    /\ requests[r].chunks < MaxChunks
    /\ LET w == streamChunk(World(TRUE), r, content)
       IN Commit(w, "chunk", IF w.requests[r].pc = "done" THEN "true" ELSE "void")

\* the stream of a request ends
StreamEnd ==
  \E r \in ReqIds :
    /\ requests[r].pc = "streaming"
    /\ LET w == streamEnd(World(TRUE), r)
       IN Commit(w, "streamEnd", IF w.requests[r].pc = "done" THEN "true" ELSE "void")

\* the client's create call or the stream throws: queryLLM's catch block
\* awaits showToast
StreamError ==
  \E r \in ReqIds :
    /\ requests[r].pc = "streaming"
    /\ Commit([World(TRUE) EXCEPT !.requests[r].pc = "toast"], "streamError", "void")

\* the awaited showToast of a request returns
ToastDone ==
  \E r \in ReqIds :
    /\ requests[r].pc = "toast"
    /\ Commit(finishRequest(World(TRUE), r), "toastDone", "true")

\* generateChatTitle returns to generateTitleForSession
TitleDone ==
  \E task \in titleTasks, generatedTitle \in GeneratedTitles :
    LET w == [World(TRUE) EXCEPT !.titleTasks = @ \ {task}]
    IN Commit(IF generatedTitle # <<>>
              THEN setSession(w, task.sessionId, [title |-> generatedTitle])
              ELSE w,
              "titleDone", "void")

\* the throttle's timer fires
TimerFires ==
  /\ throttle.timeoutId
  /\ Commit(timeoutCallback(World(TRUE)), "timer", "void")

\* time passes
Tick ==
  /\ now < MaxNow
  /\ now' = now + 1
  /\ ev' = [op |-> "tick", ret |-> "void", saves |-> 0, writes |-> 0]
  /\ UNCHANGED <<initializing, loading, query, selectedMessageId, activeSessionId,
                 persistentState, messages, abortControllerRef, aborted, requests,
                 titleTasks, throttle, stored, nextUuid, storageOk, maxInFlight,
                 writeLog>>

Next ==
  \/ LoadDone
  \/ SetQuery
  \/ PasteQuery
  \/ SendChat
  \/ RegenerateFromMessage
  \/ RegenerateFromEditedMessage
  \/ StartNewChat
  \/ DeleteSession
  \/ SwitchSession
  \/ SetSelectedModelId
  \/ SetEnableSearchTool
  \/ CancelRequest
  \/ Chunk
  \/ StreamEnd
  \/ StreamError
  \/ ToastDone
  \/ TitleDone
  \/ TimerFires
  \/ Tick

Spec == Init /\ [][Next]_vars

----------------------------------------------------------------------------
(* Scenarios.  Each keeps the handlers a group of properties is about and   *)
(* fixes the environment: whether LocalStorage works and how many requests  *)
(* the user lets overlap.                                                   *)

\* Overlapping requests: the user sends, regenerates and cancels while
\* requests stream
InitRequests == Init /\ storageOk /\ maxInFlight = MaxReq

NextRequests ==
  \/ LoadDone
  \/ SetQuery
  \/ SendChat
  \/ RegenerateFromMessage
  \/ RegenerateFromEditedMessage
  \/ CancelRequest
  \/ Chunk
  \/ StreamEnd
  \/ StreamError
  \/ ToastDone
  \/ TitleDone

SpecRequests == InitRequests /\ [][NextRequests]_vars

\* Persistence: one request at a time, the throttle's timer, and changes of
\* the store that do and do not touch persistentState
InitPersist == Init /\ storageOk /\ maxInFlight = 1

NextPersist ==
  \/ LoadDone
  \/ SetQuery
  \/ SendChat
  \/ Chunk
  \/ StreamEnd
  \/ ToastDone
  \/ StartNewChat
  \/ SetEnableSearchTool
  \/ TimerFires

SpecPersist == InitPersist /\ [][NextPersist]_vars

\* Sessions: a stored session is loaded, sessions are created, switched,
\* regenerated and deleted, one request at a time
InitSessions ==
  Init /\ storageOk /\ maxInFlight = 1 /\ stored = << FullStoredState >>

NextSessions ==
  \/ LoadDone
  \/ SetQuery
  \/ SendChat
  \/ RegenerateFromMessage
  \/ RegenerateFromEditedMessage
  \/ Chunk
  \/ ToastDone
  \/ SwitchSession
  \/ DeleteSession

SpecSessions == InitSessions /\ [][NextSessions]_vars

\* New chats: texts short and long are sent with and without an active
\* session, one request at a time
InitNewChat == Init /\ storageOk /\ maxInFlight = 1

NextNewChat ==
  \/ LoadDone
  \/ SetQuery
  \/ PasteQuery
  \/ SendChat
  \/ ToastDone
  \/ StartNewChat
  \/ TimerFires

SpecNewChat == InitNewChat /\ [][NextNewChat]_vars

\* Switching and deleting: a stored session is loaded, chats are started,
\* switched and deleted while requests stream and titles are generated
InitSwitch ==
  Init /\ storageOk /\ maxInFlight = MaxReq /\ stored = << FullStoredState >>

NextSwitch ==
  \/ LoadDone
  \/ SetQuery
  \/ SendChat
  \/ Chunk
  \/ ToastDone
  \/ TitleDone
  \/ SwitchSession
  \/ DeleteSession

SpecSwitch == InitSwitch /\ [][NextSwitch]_vars

\* Choosing models: a stored session is loaded, chats are started and
\* switched, and the model menu is used at any time, one request at a time
InitModels ==
  Init /\ storageOk /\ maxInFlight = 1 /\ stored = << FullStoredState >>

NextModels ==
  \/ LoadDone
  \/ SetQuery
  \/ SendChat
  \/ Chunk
  \/ ToastDone
  \/ SwitchSession
  \/ SetSelectedModelId

SpecModels == InitModels /\ [][NextModels]_vars

----------------------------------------------------------------------------
(* Properties                                                              *)

IsPrefix(a, b) == Len(a) <= Len(b) /\ SubSeq(b, 1, Len(a)) = a

Distinct(s) == \A i, j \in 1..Len(s) : i # j => s[i] # s[j]

\* the history of the session in ps: <<>> when there is no such session
SessionHistory(ps, sessionId) ==
  LET i == IdIndex(ps.sessions, sessionId)
  IN IF i = 0 THEN <<>> ELSE <<ps.sessions[i].history>>

\* request r is started / makes a history update in this step
Started(r) == requests[r].pc = "idle" /\ requests'[r].pc # "idle"
Updated(r) == requests[r].pc = "streaming" /\ requests'[r].updates = requests[r].updates + 1

\* C1: once a later request r2 has been started while request r streams,
\* r makes no further history update.  (Requests are numbered in the order
\* they are started.)
C1_EarlierRequestStopsUpdating ==
  [][\A r, r2 \in ReqIds :
       (r < r2 /\ requests[r].pc = "streaming" /\ requests[r2].pc # "idle")
         => ~Updated(r)]_vars

\* C2: a request on which stopRequest was invoked while it was in flight
\* makes no further history update: its next chunk ends it.
C2_StoppedRequestStopsUpdating ==
  [][\A r \in ReqIds :
       (requests[r].stopped /\ requests[r].pc = "streaming")
         => (~Updated(r) /\ (requests'[r].chunks # requests[r].chunks
                               => requests'[r].pc = "done"))]_vars

\* C3: after initialization loading is true exactly when a request is in
\* flight.
C3_LoadingIffInFlight ==
  ~initializing => (loading <=> \E r \in ReqIds : InFlight(requests[r]))

\* What an accepted send does, common to C4 as stated and as amended: the
\* session's history becomes a prefix of the previous history (all of it
\* for sendChat) followed by the new user message and the model message,
\* the store update showing the model message as the placeholder
SendInsertsPlaceholder(r) ==
  LET h == requests'[r].curHistory
      n == Len(h)
      before == IF getActiveSession(World(TRUE)) = <<>> THEN <<>>
                ELSE getActiveSession(World(TRUE))[1].history
  IN /\ n >= 2
     /\ SessionHistory(persistentState', requests'[r].sessionId) = <<h>>
     /\ IsPrefix(SubSeq(h, 1, n - 2), before)
     /\ ev'.op = "sendChat" =>
          (SubSeq(h, 1, n - 2) = before /\ messages'[h[n - 1]].parts = << [text |-> query] >>)
     /\ h[n - 1] = nextUuid' - 2 /\ h[n] = nextUuid' - 1
     /\ messages'[h[n - 1]].role = "user" /\ messages'[h[n]].role = "model"
     /\ \A i \in 1..(n - 2) : messages'[h[i]] = messages[h[i]]
     /\ requests'[r].shown = << [text |-> PlaceholderText] >>
     /\ selectedMessageId' = h[n] /\ loading' /\ query' = <<>>

C6_OneWritePerWindow ==
  [][/\ ev'.writes <= 1
     /\ (~throttle.timeoutId /\ ev'.saves >= 1)
          => (ev'.writes = 1 /\ throttle'.timeoutId
              /\ throttle'.trailingCallScheduled = (ev'.saves >= 2))
     /\ (throttle.timeoutId /\ ev'.op # "timer")
          => (ev'.writes = 0 /\ throttle'.timeoutId
              /\ (ev'.saves >= 1 => throttle'.trailingCallScheduled))
     /\ ev'.op = "timer"
          => (/\ throttle.timeoutId
              /\ ev'.writes = (IF throttle.trailingCallScheduled THEN 1 ELSE 0)
              /\ throttle'.timeoutId = throttle.trailingCallScheduled
              /\ ~throttle'.trailingCallScheduled)
     /\ ev'.saves = 0 /\ ev'.op # "timer" => ev'.writes = 0]_vars

\* saveState was called while a window was open: nothing was written, the
\* trailing call is scheduled
C6_Witness ==
  /\ ev.saves >= 1 /\ ev.writes = 0
  /\ throttle.timeoutId /\ throttle.trailingCallScheduled
  /\ writeLog.args # throttle.lastArgs

\* C7: when no window is open the last write carried the state of the most
\* recent saveState call (age 0: no saveState call since the one that
\* passed it), and the storage item is its serialization; and a write never
\* carries a state older than the write before it: the written state's age
\* is at most the age of the previously written one plus the calls made
\* since.
C7_NoStateLost ==
  [][/\ (~throttle'.timeoutId /\ throttle'.lastArgs # <<>>)
          => (/\ writeLog'.args = throttle'.lastArgs
              /\ writeLog'.age = 0
              /\ writeLog'.args = <<persistentState'>>
              /\ stored' = <<Stringify(persistentState', messages')>>)
     /\ ev'.writes >= 1
          => (/\ writeLog'.age <= Min(AgeCap, writeLog.age + ev'.saves)
              /\ writeLog'.age = (IF ev'.op = "timer" THEN 0 ELSE ev'.saves - 1))]_vars

\* the timer has made the trailing call: it wrote the state of the most
\* recent saveState call, which an earlier write did not carry
C7_Witness ==
  /\ ev.op = "timer" /\ ev.writes = 1
  /\ writeLog.args = throttle.lastArgs /\ writeLog.age = 0
  /\ writeLog.args = <<persistentState>>
  /\ Len(persistentState.sessions) >= 1

\* C8: after a successful persistState(s), loadState returns what was
\* written, and that is s: the same settings and the same sessions in the
\* same order, each with its modelId.  (Every session of the store carries
\* a modelId: loadState gives one to a stored session that has none.)
C8_RoundTrip ==
  (writeLog.args # <<>> /\ storageOk) =>
    LET s == writeLog.args[1]
        loaded == loadState(stored, TRUE)
    IN /\ stored # <<>> /\ loaded = stored[1]
       /\ loaded.selectedModelId = s.selectedModelId
       /\ loaded.enableSearchTool = s.enableSearchTool
       /\ Len(loaded.sessions) = Len(s.sessions)
       /\ \A i \in 1..Len(s.sessions) :
            /\ Has(s.sessions[i], "modelId")
            /\ [loaded.sessions[i] EXCEPT !.history = [j \in 1..Len(@) |-> @[j].id]]
                 = s.sessions[i]
       /\ LoadedPersistentState(loaded) = [s EXCEPT !.minusOne = <<>>]

\* a state with a session created in this run, of two messages, and the
\* search setting on has been written and loads back as written
C8_Witness ==
  /\ writeLog.args # <<>> /\ stored # <<>>
  /\ stored[1].enableSearchTool
  /\ Len(stored[1].sessions) >= 1
  /\ stored[1].sessions[1].id >= FirstUuid
  /\ Len(stored[1].sessions[1].history) >= 2
  /\ loadState(stored, TRUE) = stored[1]

\* C9: the ids of the sessions are pairwise distinct, and so are the
\* message ids of each session's history.
C9_IdsDistinct ==
  /\ Distinct([i \in 1..Len(persistentState.sessions) |-> persistentState.sessions[i].id])
  /\ \A i \in 1..Len(persistentState.sessions) :
       Distinct(persistentState.sessions[i].history)

\* two sessions, one of them with two exchanges
C9_Witness ==
  /\ Len(persistentState.sessions) >= 2
  /\ \E i \in 1..Len(persistentState.sessions) :
       Len(persistentState.sessions[i].history) >= 4

\* C10: sendChat's sendQuery returns false exactly when the query is blank
\* or the store is initializing, and then nothing changes: no request, no
\* session, no save, the same sessions, activeSessionId, query, loading and
\* selectedMessageId.
C10_RejectWithoutSideEffects ==
  [][ev'.op = "sendChat" =>
       /\ (ev'.ret = "false") <=> (Trim(query) = <<>> \/ initializing)
       /\ ev'.ret = "false" =>
            /\ ev'.saves = 0 /\ ev'.writes = 0
            /\ UNCHANGED <<initializing, loading, query, selectedMessageId,
                           activeSessionId, persistentState, messages,
                           abortControllerRef, aborted, requests, titleTasks,
                           throttle, stored, nextUuid>>]_vars

\* a whitespace-only query was rejected after initialization
C10_Witness ==
  /\ ev.op = "sendChat" /\ ev.ret = "false"
  /\ ~initializing /\ query # <<>> /\ Trim(query) = <<>>

\* the send family of handlers accepted the call of this step
Accepted ==
  /\ ev'.op \in {"sendChat", "regenerateFromMessage", "regenerateFromEditedMessage"}
  /\ ev'.ret = "pending"

\* C11: an accepted send with no active session puts one new session in
\* front of the unchanged existing ones and makes it active: its id is
\* fresh, its title the first 50 characters of the query, its modelId the
\* globally selected model, its history empty until the request starts (the
\* request appends its two messages to an empty history, and a write made
\* on the session's creation shows it empty); an accepted send with an
\* active session keeps the ids of the sessions and changes only the active
\* session.
C11_NewSessionInFront ==
  [][Accepted =>
       LET old == persistentState.sessions
           new == persistentState'.sessions
       IN IF getActiveSession(World(TRUE)) = <<>>
          THEN /\ ev'.op = "sendChat"
               /\ Len(new) = Len(old) + 1
               /\ Tail(new) = old
               /\ new[1].id = nextUuid
               /\ \A i \in 1..Len(old) : old[i].id # new[1].id
               /\ new[1].title = SubSeq(query, 1, Min(TitleLen, Len(query)))
               /\ new[1].modelId = persistentState.selectedModelId
               /\ new[1].createdAt = now
               /\ new[1].history = <<nextUuid + 1, nextUuid + 2>>
               /\ activeSessionId' = new[1].id
               /\ ~throttle.timeoutId =>
                    /\ Len(stored'[1].sessions) = Len(new)
                    /\ stored'[1].sessions[1].id = new[1].id
                    /\ stored'[1].sessions[1].history = <<>>
          ELSE /\ Len(new) = Len(old)
               /\ activeSessionId' = activeSessionId
               /\ \A i \in 1..Len(old) :
                    /\ new[i].id = old[i].id
                    /\ old[i].id # activeSessionId => new[i] = old[i]]_vars

\* a text longer than a title was sent with no active session while another
\* session existed: the new session is in front, titled by the first 50
\* characters
C11_Witness ==
  /\ ev.op = "sendChat" /\ ev.ret = "pending"
  /\ Len(persistentState.sessions) >= 2
  /\ persistentState.sessions[1].id = activeSessionId
  /\ Len(persistentState.sessions[1].title) = TitleLen
  /\ messages[persistentState.sessions[1].history[1]].parts = << [text |-> LongQuery] >>

\* the history of the active session, <<>> when no session is active
ActiveHistory ==
  IF getActiveSession(World(TRUE)) = <<>> THEN <<>>
  ELSE getActiveSession(World(TRUE))[1].history

\* this step is the call regenerateFromMessage(messageId)
IsRegenerateFromMessage(messageId) ==
  /\ ev'.op = "regenerateFromMessage"
  /\ \E clientOk \in BOOLEAN :
       LET w == World(clientOk) IN
       /\ CanRegenerate(w)
       /\ Commit(regenerateFromMessage(w, messageId).w, "regenerateFromMessage",
                 regenerateFromMessage(w, messageId).ret)

\* The history h of the active session has become its first kept messages
\* followed by a new user message holding text and a new placeholder;
\* the kept messages are as they were, the others are gone from it, and no
\* other session has changed
ResentFrom(h, kept, text) ==
  LET h2 == SessionHistory(persistentState', activeSessionId)
  IN /\ activeSessionId' = activeSessionId
     /\ h2 = << SubSeq(h, 1, kept) \o <<nextUuid, nextUuid + 1>> >>
     /\ nextUuid' = nextUuid + 2
     /\ \A j \in 1..Len(h) : h[j] # nextUuid /\ h[j] # nextUuid + 1
     /\ \A j \in 1..kept : messages'[h[j]] = messages[h[j]]
     /\ messages'[nextUuid].role = "user"
     /\ messages'[nextUuid].parts = << [text |-> text] >>
     /\ messages'[nextUuid + 1].role = "model"
     /\ \E r \in ReqIds :
          /\ Started(r)
          /\ requests'[r].curHistory = h2[1]
          /\ requests'[r].shown = << [text |-> PlaceholderText] >>
     /\ Len(persistentState'.sessions) = Len(persistentState.sessions)
     /\ \A i \in 1..Len(persistentState.sessions) :
          persistentState.sessions[i].id # activeSessionId
            => persistentState'.sessions[i] = persistentState.sessions[i]

\* C12: regenerateFromMessage(id) for a message of the active session's
\* history is accepted and cuts the history before the message when it is
\* a user message and before the user message preceding it when it is a
\* model message; the text of that user message is sent again: the history
\* becomes the kept messages, a new user message with the same text and a
\* new placeholder.
C12_RegenerateCutsAndResends ==
  [][\A messageId \in 1..MaxUuid :
       (IsRegenerateFromMessage(messageId) /\ messageId \in SeqRange(ActiveHistory)) =>
         LET h == ActiveHistory
             i == FindFrom(h, messageId, 1)
             kept == IF messages[messageId].role = "model" THEN i - 2 ELSE i - 1
         IN /\ ev'.ret = "pending"
            /\ kept >= 0
            /\ messages[h[kept + 1]].role = "user"
            /\ ResentFrom(h, kept, getTextFromParts(messages[h[kept + 1]].parts))]_vars

\* the second exchange of a session was regenerated: the first exchange is
\* kept, the second one is gone, its user text was sent again
C12_Witness ==
  /\ ev.op = "regenerateFromMessage" /\ ev.ret = "pending"
  /\ Len(ActiveHistory) = 4
  /\ ActiveHistory[3] = nextUuid - 2
  /\ ActiveHistory[3] > ActiveHistory[2] + 2
  /\ messages[ActiveHistory[3]].role = "user"

\* this step is the call regenerateFromEditedMessage(messageId, editedContent)
IsRegenerateFromEditedMessage(messageId, editedContent) ==
  /\ ev'.op = "regenerateFromEditedMessage"
  /\ \E clientOk \in BOOLEAN :
       LET w == World(clientOk) IN
       /\ CanRegenerate(w)
       /\ Commit(regenerateFromEditedMessage(w, messageId, editedContent).w,
                 "regenerateFromEditedMessage",
                 regenerateFromEditedMessage(w, messageId, editedContent).ret)

\* C13: regenerateFromEditedMessage(id, text) for a user message of the
\* active session's history cuts the history before that message and
\* sends text: the history becomes the messages before it, a new user
\* message holding text and a new placeholder; when there is no active
\* session, the id is not in its history or the message is no user
\* message, it returns false and truncates nothing.
C13_EditCutsAndSends ==
  [][\A messageId \in 1..MaxUuid, editedContent \in QueryInputs :
       IsRegenerateFromEditedMessage(messageId, editedContent) =>
         IF /\ messageId \in SeqRange(ActiveHistory)
            /\ messages[messageId].role = "user"
         THEN /\ ev'.ret = "pending"
              /\ ResentFrom(ActiveHistory, FindFrom(ActiveHistory, messageId, 1) - 1,
                            editedContent)
         ELSE /\ ev'.ret = "false"
              /\ persistentState' = persistentState]_vars

\* C14: when regenerateFromMessage or regenerateFromEditedMessage returns
\* false, the history of the active session is what it was before the call.
C14_RegenerationAllOrNothing ==
  [][(/\ ev'.op \in {"regenerateFromMessage", "regenerateFromEditedMessage"}
      /\ ev'.ret = "false")
       => /\ activeSessionId' = activeSessionId
          /\ SessionHistory(persistentState', activeSessionId)
               = SessionHistory(persistentState, activeSessionId)]_vars

\* this step is the call deleteSession(id)
IsDeleteSession(id) ==
  /\ ev'.op = "deleteSession"
  /\ id \in SessionIds
  /\ Commit(deleteSession(World(TRUE), id), "deleteSession", "void")

\* C15: deleteSession(id) aborts the controller of the request in flight
\* and takes the session with that id, and no other, out of sessions, the
\* others staying as they were and in their order; when that session was
\* the active one, activeSessionId and selectedMessageId become null and
\* query becomes empty, otherwise the three are unchanged.
C15_DeleteRemovesOneSession ==
  [][\A id \in 1..MaxUuid :
       IsDeleteSession(id) =>
         /\ persistentState'.sessions
              = SelectSeq(persistentState.sessions, LAMBDA s : s.id # id)
         /\ abortControllerRef' = abortControllerRef
         /\ abortControllerRef # 0 => abortControllerRef \in aborted'
         /\ IF activeSessionId = id
            THEN /\ activeSessionId' = 0
                 /\ selectedMessageId' = 0
                 /\ query' = <<>>
            ELSE /\ activeSessionId' = activeSessionId
                 /\ selectedMessageId' = selectedMessageId
                 /\ query' = query]_vars

\* a session other than the active one has been deleted while a request
\* streamed into the active one, which stays in the list
C15_Witness ==
  /\ ev.op = "deleteSession"
  /\ activeSessionId \in SessionIds
  /\ abortControllerRef # 0
  /\ abortControllerRef \in aborted
  /\ \E r \in ReqIds : requests[r].pc = "streaming"

\* the session a started request r runs for is no longer in sessions
RunsForDeleted(r) ==
  /\ InFlight(requests[r])
  /\ requests[r].sessionId \notin SessionIds

\* C16: once a session has been deleted, an event of the request that was
\* running for it (a chunk, its end) and the completion of the title
\* generation that request gave rise to leave sessions as it is: the
\* session is not put back and no other session changes; and a title
\* addressed to a session that is not in the list leaves sessions as it is.
C16_DeletedStaysDeleted ==
  [][/\ \A r \in ReqIds :
          (RunsForDeleted(r) /\ requests'[r] # requests[r]
             /\ ev'.op \in {"chunk", "toastDone"})
            => persistentState'.sessions = persistentState.sessions
     /\ \A task \in titleTasks \ titleTasks' :
          (ev'.op = "titleDone"
             /\ (task.startedFor \notin SessionIds \/ task.sessionId \notin SessionIds))
            => persistentState'.sessions = persistentState.sessions]_vars

\* this step is the call switchSession(target)
IsSwitchSession(target) ==
  /\ ev'.op = "switchSession"
  /\ Commit(switchSession(World(TRUE), target), "switchSession", "void")

\* the id of the last message of the session, null when it has none
LastMessageId(sessionId) ==
  LET h == SessionHistory(persistentState, sessionId)
  IN IF h = <<>> \/ h[1] = <<>> THEN 0 ELSE h[1][Len(h[1])]

\* C17: switchSession(target) changes nothing and cancels nothing when
\* target is the id of the active session, or is NEW_CHAT_ID while no
\* session is active; otherwise it aborts the controller of the request in
\* flight, empties query, and makes target the active session with the
\* last message of its history selected (none when the history is empty),
\* or, for NEW_CHAT_ID and null, makes no session active and no message
\* selected; sessions is never changed.
C17_SwitchSession ==
  [][\A target \in SessionIds \cup {NEW_CHAT_ID, 0} :
       IsSwitchSession(target) =>
         /\ persistentState' = persistentState
         /\ abortControllerRef' = abortControllerRef
         /\ IF \/ activeSessionId # 0 /\ target = activeSessionId
               \/ activeSessionId = 0 /\ target = NEW_CHAT_ID
            THEN /\ aborted' = aborted
                 /\ query' = query
                 /\ activeSessionId' = activeSessionId
                 /\ selectedMessageId' = selectedMessageId
                 /\ UNCHANGED <<initializing, loading, messages, requests, titleTasks,
                                throttle, stored>>
            ELSE /\ abortControllerRef # 0 => abortControllerRef \in aborted'
                 /\ query' = <<>>
                 /\ IF target \in {NEW_CHAT_ID, 0}
                    THEN /\ activeSessionId' = 0
                         /\ selectedMessageId' = 0
                    ELSE /\ activeSessionId' = target
                         /\ selectedMessageId' = LastMessageId(target)]_vars

\* the user has switched from the session a request streams into to
\* another session, whose last message is now selected, with a query typed
\* before the switch now gone
C17_Witness ==
  /\ ev.op = "switchSession"
  /\ activeSessionId \in SessionIds
  /\ selectedMessageId # 0
  /\ selectedMessageId = LastMessageId(activeSessionId)
  /\ query = <<>>
  /\ abortControllerRef # 0
  /\ abortControllerRef \in aborted
  /\ \E r \in ReqIds : /\ requests[r].pc = "streaming"
                        /\ requests[r].sessionId # activeSessionId

\* this step is the call setSelectedModelId(m)
IsSetSelectedModelId(m) ==
  /\ ev'.op = "setSelectedModelId"
  /\ Commit(setSelectedModelId(World(TRUE), m), "setSelectedModelId", "void")

\* the index in sessions of the active session, 0 when no session is active
ActiveIndex ==
  IF activeSessionId = 0 THEN 0 ELSE IdIndex(persistentState.sessions, activeSessionId)

\* the model in effect: that of the active session, else the global one
EffectiveModelId ==
  IF ActiveIndex # 0 THEN persistentState.sessions[ActiveIndex].modelId
  ELSE persistentState.selectedModelId

\* C18: setSelectedModelId(m) changes nothing while the store is
\* initializing or when m is the model in effect already; otherwise, with
\* an active session, that session gets m as its modelId (and a new
\* updatedAt) while the global selectedModelId and every other session stay
\* as they are, and with no active session the global selectedModelId
\* becomes m and no session changes; nothing else of the store changes.
C18_SetSelectedModelId ==
  [][\A m \in AVAILABLE_MODELS :
       IsSetSelectedModelId(m) =>
         /\ UNCHANGED <<initializing, loading, query, selectedMessageId, activeSessionId,
                        messages, abortControllerRef, aborted, requests, titleTasks>>
         /\ persistentState'.enableSearchTool = persistentState.enableSearchTool
         /\ IF initializing \/ m = EffectiveModelId
            THEN /\ persistentState' = persistentState
                 /\ UNCHANGED <<throttle, stored>>
                 /\ ev'.saves = 0
            ELSE IF ActiveIndex # 0
            THEN /\ persistentState'.selectedModelId = persistentState.selectedModelId
                 /\ Len(persistentState'.sessions) = Len(persistentState.sessions)
                 /\ \A i \in 1..Len(persistentState.sessions) :
                      IF i = ActiveIndex
                      THEN /\ persistentState'.sessions[i].modelId = m
                           /\ persistentState'.sessions[i] =
                                [persistentState.sessions[i] EXCEPT
                                   !.modelId = m,
                                   !.updatedAt = persistentState'.sessions[i].updatedAt]
                      ELSE persistentState'.sessions[i] = persistentState.sessions[i]
            ELSE /\ persistentState'.selectedModelId = m
                 /\ persistentState'.sessions = persistentState.sessions]_vars

\* the model of the active session has been changed to one that differs
\* from the global choice, with another session in the list
C18_Witness ==
  /\ ev.op = "setSelectedModelId"
  /\ ev.saves = 1
  /\ ActiveIndex # 0
  /\ Len(persistentState.sessions) >= 2
  /\ EffectiveModelId # persistentState.selectedModelId

====
